---- MODULE Spec2Model ----
(***************************************************************************)
(* Model of password_policy_analyzer: the policy loader (config.py), the   *)
(* rule pipeline (analyzer.py) and its two collaborators, the blocklist    *)
(* loader and the k-anonymity breach lookup (weak_passwords.py).           *)
(*                                                                         *)
(* A Python str is a sequence of characters; a character is a string       *)
(* naming one code point ("a", " ", "a_acute", "COMBINING_ACUTE", ...).    *)
(***************************************************************************)
EXTENDS Integers, Sequences, FiniteSets, TLC

VARIABLES
    pc,            \* "start" | "loaded" | "config_error" | "done" | "raised"
    config,        \* what --config points at (or that the flag is absent)
    policy,        \* the PasswordPolicy in force
    password,      \* the password handed to analyze_password
    context_words, \* the context_words argument
    fs,            \* what local_blocklist_path refers to on disk
    net,           \* how the remote range endpoint answers
    result,        \* the PasswordAnalysis returned
    queries        \* number of urlopen calls made so far

vars == <<pc, config, policy, password, context_words, fs, net, result, queries>>

----------------------------------------------------------------------------
(* Bounds of the model *)

\* longest enumerated password stem, in code points
MaxStem == 2
\* longest run of one filler character appended to a stem
MaxFill == 1
\* most context words handed to one call
MaxWords == 3
\* most lines in a blocklist file or a response body
MaxLines == 2

----------------------------------------------------------------------------
(* Characters *)

Range(s) == {s[i] : i \in 1..Len(s)}

\* str.isspace
IsSpace(ch) == ch \in {" ", "\n", "NBSP"}

\* ord(ch) > 127
NonAscii(ch) == ch \in {"a_acute", "A_ACUTE", "COMBINING_ACUTE", "NBSP"}

\* str.isupper / str.islower / str.isdigit for one character
IsUpperCh(ch) == ch \in {"A", "B", "C", "D", "E", "F", "A_ACUTE"}
IsLowerCh(ch) == ch \in {"a", "b", "c", "d", "e", "f", "x", "a_acute"}
IsDigitCh(ch) == ch \in {"0", "1", "2", "3", "4", "5", "6", "7", "8", "9"}

\* string.punctuation (the members the model's strings use)
SYMBOLS == {"!", "#", ":", "-", "+", "/", "."}

\* str.lower / str.upper / str.casefold for one character
LowerCh(ch) ==
    CASE ch = "A" -> "a" [] ch = "B" -> "b" [] ch = "E" -> "e"
      [] ch = "C" -> "c" [] ch = "D" -> "d" [] ch = "F" -> "f"
      [] ch = "A_ACUTE" -> "a_acute"
      [] OTHER -> ch

UpperCh(ch) ==
    CASE ch = "a" -> "A" [] ch = "b" -> "B" [] ch = "e" -> "E"
      [] ch = "c" -> "C" [] ch = "d" -> "D" [] ch = "f" -> "F"
      [] ch = "a_acute" -> "A_ACUTE"
      [] OTHER -> ch

Lower(s) == [i \in 1..Len(s) |-> LowerCh(s[i])]
Upper(s) == [i \in 1..Len(s) |-> UpperCh(s[i])]
Casefold(s) == [i \in 1..Len(s) |-> LowerCh(s[i])]

\* str.strip(): drop leading and trailing whitespace
RECURSIVE LStrip(_)
LStrip(s) == IF s # <<>> /\ IsSpace(Head(s)) THEN LStrip(Tail(s)) ELSE s

RECURSIVE RStrip(_)
RStrip(s) ==
    IF s # <<>> /\ IsSpace(s[Len(s)]) THEN RStrip(SubSeq(s, 1, Len(s) - 1)) ELSE s

Strip(s) == RStrip(LStrip(s))

\* needle in haystack (substring containment)
Contains(haystack, needle) ==
    \E i \in 0..(Len(haystack) - Len(needle)) :
        SubSeq(haystack, i + 1, i + Len(needle)) = needle

\* unicodedata.normalize("NFC", s): a base letter followed by the combining
\* acute accent composes into the precomposed letter
RECURSIVE NFC(_)
NFC(s) ==
    IF Len(s) < 2 THEN s
    ELSE IF s[2] = "COMBINING_ACUTE" /\ s[1] \in {"a", "A"}
         THEN <<(IF s[1] = "a" THEN "a_acute" ELSE "A_ACUTE")>> \o NFC(SubSeq(s, 3, Len(s)))
         ELSE <<s[1]>> \o NFC(Tail(s))

Max(a, b) == IF a >= b THEN a ELSE b

----------------------------------------------------------------------------
(* policy.py *)

PolicyKeys ==
    {"min_length", "max_length", "require_upper", "require_lower", "require_digit",
     "require_symbol", "allow_spaces", "allow_unicode", "normalize_unicode_nfc",
     "local_blocklist_path", "check_pwned_passwords", "forbid_context_words"}

\* values of local_blocklist_path: None, a TOML string, or a pathlib.Path
NonePath == [tag |-> "None", s |-> ""]
StrValue(s) == [tag |-> "str", s |-> s]
Path(v) == [tag |-> "Path", s |-> v.s]

\* Python truthiness of a local_blocklist_path value
Truthy(v) == v.tag = "Path" \/ (v.tag = "str" /\ v.s # "")

\* the dataclass defaults of PasswordPolicy
PolicyDefaults ==
    [min_length |-> 12, max_length |-> 128,
     require_upper |-> FALSE, require_lower |-> FALSE,
     require_digit |-> FALSE, require_symbol |-> FALSE,
     allow_spaces |-> TRUE, allow_unicode |-> TRUE, normalize_unicode_nfc |-> FALSE,
     local_blocklist_path |-> NonePath, check_pwned_passwords |-> FALSE,
     forbid_context_words |-> TRUE]

\* PasswordPolicy(**kwargs): keyword arguments override the defaults
PasswordPolicy(kwargs) ==
    [k \in PolicyKeys |-> IF k \in DOMAIN kwargs THEN kwargs[k] ELSE PolicyDefaults[k]]

EmptyTable == [k \in {} |-> 0]

modern_default_policy ==
    PasswordPolicy([min_length |-> 12, max_length |-> 128])

PolicyViolation(code, word, num) == [code |-> code, word |-> word, num |-> num]

Codes(violations) == [i \in 1..Len(violations) |-> violations[i].code]

----------------------------------------------------------------------------
(* config.py *)

RawPolicy_required(cfg) == [is_dict |-> cfg.kind = "table", table |-> cfg.table]

\* raw_policy = data.get("policy", {}): the value and whether it is a dict
RawPolicy(cfg) ==
    IF cfg.kind = "no_policy"
    THEN [is_dict |-> TRUE, table |-> EmptyTable]
    ELSE [is_dict |-> cfg.kind = "table", table |-> cfg.table]

\* "Convert strings to Path where needed"
ConvertPath(raw) ==
    IF "local_blocklist_path" \in DOMAIN raw /\ Truthy(raw["local_blocklist_path"])
    THEN [k \in DOMAIN raw |->
            IF k = "local_blocklist_path" THEN Path(raw[k]) ELSE raw[k]]
    ELSE raw

\* "Filter unknown keys to avoid confusing errors"
FilterKnown(raw) == [k \in (DOMAIN raw) \cap PolicyKeys |-> raw[k]]

\* load_policy_from_toml: [raised, policy]; tomllib.loads raises on invalid TOML
load_policy_from_toml(cfg) ==
    IF cfg.kind = "invalid_toml"
    THEN [raised |-> TRUE, policy |-> PolicyDefaults]
    ELSE IF ~RawPolicy(cfg).is_dict
    THEN [raised |-> TRUE, policy |-> PolicyDefaults]
    ELSE [raised |-> FALSE,
          policy |-> PasswordPolicy(FilterKnown(ConvertPath(RawPolicy(cfg).table)))]

----------------------------------------------------------------------------
(* weak_passwords.py *)

\* iterating a text file: the lines, each with its "\n" terminator
RECURSIVE FileLines(_)
FileLines(content) ==
    IF content = <<>> THEN <<>>
    ELSE IF \E i \in 1..Len(content) : content[i] = "\n"
    THEN LET n == CHOOSE i \in 1..Len(content) :
                      content[i] = "\n" /\ \A j \in 1..(i - 1) : content[j] # "\n"
         IN <<SubSeq(content, 1, n)>> \o FileLines(SubSeq(content, n + 1, Len(content)))
    ELSE <<content>>

\* item = line.strip(); if item: blocked.add(item)
BlockedItems(lines) ==
    {Strip(lines[i]) : i \in {j \in 1..Len(lines) : Strip(lines[j]) # <<>>}}

\* load_blocklist: path.open raises on a directory, decoding raises on bytes
\* that are not UTF-8
load_blocklist(file) ==
    IF file.kind # "file"
    THEN [raised |-> TRUE, blocked |-> {}]
    ELSE [raised |-> FALSE, blocked |-> BlockedItems(FileLines(file.content))]

\* str.splitlines(): the lines without their terminators
RECURSIVE SplitLines(_)
SplitLines(body) ==
    IF body = <<>> THEN <<>>
    ELSE IF \E i \in 1..Len(body) : body[i] = "\n"
    THEN LET n == CHOOSE i \in 1..Len(body) :
                      body[i] = "\n" /\ \A j \in 1..(i - 1) : body[j] # "\n"
         IN <<SubSeq(body, 1, n - 1)>> \o SplitLines(SubSeq(body, n + 1, Len(body)))
    ELSE <<body>>

\* line.split(":", 1)
ColonAt(line) ==
    CHOOSE i \in 1..Len(line) : line[i] = ":" /\ \A j \in 1..(i - 1) : line[j] # ":"

HexDigits == <<"0", "1", "2", "3", "4", "5", "6", "7", "8", "9", "A", "B", "C", "D", "E", "F">>

DigitValue(ch) == (CHOOSE i \in 1..10 : HexDigits[i] = ch) - 1

RECURSIVE DigitsValue(_)
DigitsValue(ds) ==
    IF ds = <<>> THEN 0
    ELSE 10 * DigitsValue(SubSeq(ds, 1, Len(ds) - 1)) + DigitValue(ds[Len(ds)])

\* int(s): an optional sign and at least one decimal digit, else ValueError
ParseInt(s) ==
    LET signed == s # <<>> /\ s[1] \in {"+", "-"}
        digits == IF signed THEN Tail(s) ELSE s
    IN IF digits # <<>> /\ \A i \in 1..Len(digits) : IsDigitCh(digits[i])
       THEN [ok |-> TRUE,
             value |-> IF signed /\ s[1] = "-" THEN 0 - DigitsValue(digits)
                       ELSE DigitsValue(digits)]
       ELSE [ok |-> FALSE, value |-> 0]

\* the code points the model knows, in a fixed order (the UTF-8 encoding's stand-in)
CodePoints ==
    <<"a", "A", "b", "B", "1", "!", " ", "a_acute", "A_ACUTE",
      "COMBINING_ACUTE", "NBSP", "\n", "x">>

CodeOf(ch) == CHOOSE i \in 1..Len(CodePoints) : CodePoints[i] = ch

RECURSIVE Mix(_)
Mix(s) == IF s = <<>> THEN 7 ELSE (Mix(SubSeq(s, 1, Len(s) - 1)) * 31 + CodeOf(s[Len(s)])) % 65521

\* hashlib.sha1(password.encode("utf-8")).hexdigest().upper(): a deterministic
\* 40-digit uppercase hex digest of the password (a stand-in for SHA-1)
Sha1HexUpper(pw) ==
    LET m == Mix(pw)
    IN [i \in 1..40 |-> HexDigits[(((m \div i) + m * i) % 16) + 1]]

\* prefix, suffix = sha1[:5], sha1[5:]
HashSuffix(pw) == SubSeq(Sha1HexUpper(pw), 6, 40)

\* one response line against the local suffix: [hit, count]
MatchLine(line, suffix) ==
    IF ":" \notin Range(line) THEN [hit |-> FALSE, count |-> 0]
    ELSE LET c == ColonAt(line)
             remote_suffix == SubSeq(line, 1, c - 1)
             count_str == SubSeq(line, c + 1, Len(line))
         IN IF Upper(Strip(remote_suffix)) = suffix
            THEN [hit |-> TRUE,
                  count |-> IF ParseInt(Strip(count_str)).ok
                            THEN ParseInt(Strip(count_str)).value ELSE 0]
            ELSE [hit |-> FALSE, count |-> 0]

\* for line in body.splitlines(): return at the first matching line
RECURSIVE ScanLines(_, _)
ScanLines(lines, suffix) ==
    IF lines = <<>> THEN [is_pwned |-> FALSE, breach_count |-> 0]
    ELSE IF MatchLine(Head(lines), suffix).hit
    THEN [is_pwned |-> TRUE, breach_count |-> MatchLine(Head(lines), suffix).count]
    ELSE ScanLines(Tail(lines), suffix)

\* check_pwned_passwords_k_anonymity: urlopen raises on a timeout, a connection
\* error, a non-2xx status or a response http.client cannot parse;
\* [raised, match]
check_pwned_passwords_k_anonymity(pw, remote) ==
    IF remote.kind # "ok"
    THEN [raised |-> TRUE, match |-> [is_pwned |-> FALSE, breach_count |-> 0]]
    ELSE [raised |-> FALSE, match |-> ScanLines(SplitLines(remote.body), HashSuffix(pw))]

----------------------------------------------------------------------------
(* analyzer.py *)

NoWord == <<>>

\* _apply_normalization
apply_normalization(pw, pol) == IF pol.normalize_unicode_nfc THEN NFC(pw) ELSE pw

check_length_inclusive(pw, pol) ==
    (IF Len(pw) <= pol.min_length
     THEN <<PolicyViolation("length_too_short", NoWord, pol.min_length)>> ELSE <<>>)
    \o
    (IF Len(pw) >= pol.max_length
     THEN <<PolicyViolation("length_too_long", NoWord, pol.max_length)>> ELSE <<>>)

\* _check_length
check_length(pw, pol) ==
    (IF Len(pw) < pol.min_length
     THEN <<PolicyViolation("length_too_short", NoWord, pol.min_length)>> ELSE <<>>)
    \o
    (IF Len(pw) > pol.max_length
     THEN <<PolicyViolation("length_too_long", NoWord, pol.max_length)>> ELSE <<>>)

\* _check_character_rules
check_character_rules(pw, pol) ==
    (IF ~pol.allow_spaces /\ \E i \in 1..Len(pw) : IsSpace(pw[i])
     THEN <<PolicyViolation("spaces_not_allowed", NoWord, 0)>> ELSE <<>>)
    \o
    (IF ~pol.allow_unicode /\ \E i \in 1..Len(pw) : NonAscii(pw[i])
     THEN <<PolicyViolation("unicode_not_allowed", NoWord, 0)>> ELSE <<>>)

\* _check_composition
check_composition(pw, pol) ==
    LET has_upper == \E i \in 1..Len(pw) : IsUpperCh(pw[i])
        has_lower == \E i \in 1..Len(pw) : IsLowerCh(pw[i])
        has_digit == \E i \in 1..Len(pw) : IsDigitCh(pw[i])
        has_symbol == \E i \in 1..Len(pw) : pw[i] \in SYMBOLS
    IN (IF pol.require_upper /\ ~has_upper
        THEN <<PolicyViolation("missing_upper", NoWord, 0)>> ELSE <<>>)
       \o
       (IF pol.require_lower /\ ~has_lower
        THEN <<PolicyViolation("missing_lower", NoWord, 0)>> ELSE <<>>)
       \o
       (IF pol.require_digit /\ ~has_digit
        THEN <<PolicyViolation("missing_digit", NoWord, 0)>> ELSE <<>>)
       \o
       (IF pol.require_symbol /\ ~has_symbol
        THEN <<PolicyViolation("missing_symbol", NoWord, 0)>> ELSE <<>>)

RECURSIVE check_context_words_no_break(_, _)
check_context_words_no_break(pw, words) ==
    IF words = <<>> THEN <<>>
    ELSE LET cleaned == Strip(Head(words))
         IN IF cleaned = <<>> THEN check_context_words_no_break(pw, Tail(words))
            ELSE IF Contains(Casefold(pw), Casefold(cleaned))
            THEN <<PolicyViolation("contains_context_word", cleaned, 0)>>
                 \o check_context_words_no_break(pw, Tail(words))
            ELSE check_context_words_no_break(pw, Tail(words))

\* _check_context_words: the loop over context_words, with its break
RECURSIVE check_context_words(_, _)
check_context_words(pw, words) ==
    IF words = <<>> THEN <<>>
    ELSE LET cleaned == Strip(Head(words))
         IN IF cleaned = <<>> THEN check_context_words(pw, Tail(words))
            ELSE IF Contains(Casefold(pw), Casefold(cleaned))
            THEN <<PolicyViolation("contains_context_word", cleaned, 0)>>
            ELSE check_context_words(pw, Tail(words))

\* the guarded call in analyze_password:
\* if policy.forbid_context_words and context_words: ...
context_step(pw, pol, words) ==
    IF pol.forbid_context_words /\ words # <<>>
    THEN check_context_words(pw, words) ELSE <<>>

\* _check_blocklist: [raised, out]
check_blocklist(pw, pol, file) ==
    IF ~Truthy(pol.local_blocklist_path)
    THEN [raised |-> FALSE, out |-> <<>>]
    ELSE IF file.kind = "nonexistent"
    THEN [raised |-> FALSE, out |-> <<PolicyViolation("blocklist_missing", NoWord, 0)>>]
    ELSE IF load_blocklist(file).raised
    THEN [raised |-> TRUE, out |-> <<>>]
    ELSE IF pw \in load_blocklist(file).blocked
    THEN [raised |-> FALSE, out |-> <<PolicyViolation("blocklisted_password", NoWord, 0)>>]
    ELSE [raised |-> FALSE, out |-> <<>>]

check_pwned_silent(pw, pol, remote) ==
    IF ~pol.check_pwned_passwords
    THEN [out |-> <<>>, calls |-> 0]
    ELSE LET r == check_pwned_passwords_k_anonymity(pw, remote)
         IN IF ~r.raised /\ r.match.is_pwned
            THEN [out |-> <<PolicyViolation("pwned_password", NoWord, r.match.breach_count)>>,
                  calls |-> 1]
            ELSE [out |-> <<>>, calls |-> 1]

\* _check_pwned: [out, calls], calls counting the urlopen calls it made
check_pwned(pw, pol, remote) ==
    IF ~pol.check_pwned_passwords
    THEN [out |-> <<>>, calls |-> 0]
    ELSE LET r == check_pwned_passwords_k_anonymity(pw, remote)
         IN IF r.raised
            THEN [out |-> <<PolicyViolation("pwned_check_failed", NoWord, 0)>>, calls |-> 1]
            ELSE IF r.match.is_pwned
            THEN [out |-> <<PolicyViolation("pwned_password", NoWord, r.match.breach_count)>>,
                  calls |-> 1]
            ELSE [out |-> <<>>, calls |-> 1]

TipLonger == "Consider using a longer passphrase (14+ characters) for better security."
TipMix == "Mixing words or using a multi-word passphrase can improve strength and memorability."
TipUnique == "Use unique passwords per site (a password manager helps)."

\* the 14 of max(14, policy.min_length)
TipLength == 14

general_suggestions_cased(pw, pol) ==
    (IF Len(pw) < Max(TipLength, pol.min_length) THEN <<TipLonger>> ELSE <<>>)
    \o
    (IF \/ (\E i \in 1..Len(pw) : IsLowerCh(pw[i])) /\ Upper(pw) # pw /\ Lower(pw) = pw
        \/ (\E i \in 1..Len(pw) : IsUpperCh(pw[i])) /\ Lower(pw) # pw /\ Upper(pw) = pw
     THEN <<TipMix>> ELSE <<>>)
    \o
    <<TipUnique>>

\* _general_suggestions
general_suggestions(pw, pol) ==
    (IF Len(pw) < Max(TipLength, pol.min_length) THEN <<TipLonger>> ELSE <<>>)
    \o
    (IF Lower(pw) = pw \/ Upper(pw) = pw THEN <<TipMix>> ELSE <<>>)
    \o
    <<TipUnique>>

is_ok_lenient(violations) == Len(violations) <= 1

\* is_ok = len(violations) == 0
is_ok(violations) == Len(violations) = 0

\* the violations gathered before the blocklist check
violations_before_blocklist(normalized, pol, words) ==
    check_length(normalized, pol)
    \o check_character_rules(normalized, pol)
    \o check_composition(normalized, pol)
    \o context_step(normalized, pol, words)

assemble_pwned_first(before, blocklist, pwned, suggestions) ==
    LET violations == before \o pwned \o blocklist
    IN [is_compliant |-> Len(violations) = 0,
        violations |-> violations,
        suggestions |-> suggestions]

\* the body of analyze_password once nothing it calls has raised
assemble(before, blocklist, pwned, suggestions) ==
    LET violations == before \o blocklist \o pwned
    IN [is_compliant |-> is_ok(violations),
        violations |-> violations,
        suggestions |-> suggestions]

\* analyze_password: [raised, analysis, calls]
analyze_password(pw, pol, words, file, remote) ==
    LET normalized == apply_normalization(pw, pol)
        bl == check_blocklist(normalized, pol, file)
        pwned == check_pwned(normalized, pol, remote)
    IN IF bl.raised
       THEN [raised |-> TRUE, calls |-> 0,
             analysis |-> [is_compliant |-> FALSE, violations |-> <<>>, suggestions |-> <<>>]]
       ELSE [raised |-> FALSE, calls |-> pwned.calls,
             analysis |-> assemble(violations_before_blocklist(normalized, pol, words),
                                   bl.out, pwned.out,
                                   general_suggestions(normalized, pol))]

----------------------------------------------------------------------------
(* cli.py: main() loads the policy, then analyses the password *)

NoAnalysis == [is_compliant |-> FALSE, violations |-> <<>>, suggestions |-> <<>>]

\* policy = modern_default_policy(); if args.config: policy = load_policy_from_toml(...)
LoadPolicy ==
    /\ pc = "start"
    /\ IF config.kind = "none"
       THEN /\ policy' = modern_default_policy
            /\ pc' = "loaded"
       ELSE IF load_policy_from_toml(config).raised
       THEN /\ policy' = policy
            /\ pc' = "config_error"
       ELSE /\ policy' = load_policy_from_toml(config).policy
            /\ pc' = "loaded"
    /\ UNCHANGED <<config, password, context_words, fs, net, result, queries>>

\* result = analyze_password(password, policy, context_words=args.context)
Analyze ==
    /\ pc = "loaded"
    /\ LET r == analyze_password(password, policy, context_words, fs, net)
       IN /\ pc' = IF r.raised THEN "raised" ELSE "done"
          /\ result' = r.analysis
          /\ queries' = queries + r.calls
    /\ UNCHANGED <<config, policy, password, context_words, fs, net>>

Next == LoadPolicy \/ Analyze

----------------------------------------------------------------------------
(* Inputs *)

SeqsUpTo(A, n) == UNION {[1..k -> A] : k \in 0..n}

Fill(ch, k) == [i \in 1..k |-> ch]

Restrict(f, D) == [k \in D |-> f[k]]

JoinLines(lines) ==
    LET RECURSIVE J(_)
        J(ls) == IF ls = <<>> THEN <<>> ELSE Head(ls) \o <<"\n">> \o J(Tail(ls))
    IN J(lines)

NoConfig == [kind |-> "none", table |-> EmptyTable]
InvalidToml == [kind |-> "invalid_toml", table |-> EmptyTable]
NoPolicyTable == [kind |-> "no_policy", table |-> EmptyTable]
PolicyNotTable == [kind |-> "not_table", table |-> EmptyTable]
Table(t) == [kind |-> "table", table |-> t]

NoFile == [kind |-> "nonexistent", content |-> <<>>]
Directory == [kind |-> "directory", content |-> <<>>]
NotUtf8 == [kind |-> "undecodable", content |-> <<>>]
File(content) == [kind |-> "file", content |-> content]

Failed(kind) == [kind |-> kind, body |-> <<>>]
Ok(body) == [kind |-> "ok", body |-> body]
Failures == {Failed("timeout"), Failed("connection_error"),
             Failed("http_error"), Failed("malformed_response")}

BlocklistPath == StrValue("/etc/blocklist.txt")

InitWith(Configs, Passwords, Contexts, Files, Remotes) ==
    /\ pc = "start"
    /\ config \in Configs
    /\ policy = modern_default_policy
    /\ password \in Passwords
    /\ context_words \in Contexts
    /\ fs \in Files
    /\ net \in Remotes
    /\ result = NoAnalysis
    /\ queries = 0

\* one "SUFFIX:COUNT" record for the password `target`
Record(target, count_str) == HashSuffix(target) \o <<":">> \o count_str

\* the rule flags of a policy table
RuleTables ==
    {[min_length |-> mn, max_length |-> mx,
      require_upper |-> ru, require_lower |-> rl,
      require_digit |-> rd, require_symbol |-> rd,
      allow_spaces |-> sp, allow_unicode |-> un, normalize_unicode_nfc |-> nf] :
        mn \in {2, 3}, mx \in {1, 128}, ru \in BOOLEAN, rl \in BOOLEAN,
        rd \in BOOLEAN, sp \in BOOLEAN, un \in BOOLEAN, nf \in BOOLEAN}

StrictRules ==
    [min_length |-> 3, max_length |-> 1,
     require_upper |-> TRUE, require_lower |-> TRUE,
     require_digit |-> TRUE, require_symbol |-> TRUE,
     allow_spaces |-> FALSE, allow_unicode |-> FALSE, normalize_unicode_nfc |-> TRUE]

\* the optional checks of a policy table, with the world they look at:
\* [table, fs, net]
BlocklistSettings(Files) ==
    {[table |-> EmptyTable, fs |-> NoFile]}
    \cup {[table |-> [local_blocklist_path |-> BlocklistPath], fs |-> f] : f \in Files}

PwnedSettings(Remotes) ==
    {[table |-> EmptyTable, net |-> Failed("timeout")],
     [table |-> [check_pwned_passwords |-> FALSE], net |-> Ok(<<>>)]}
    \cup {[table |-> [check_pwned_passwords |-> TRUE], net |-> r] : r \in Remotes}

Merge(f, g) ==
    [k \in (DOMAIN f) \cup (DOMAIN g) |-> IF k \in DOMAIN f THEN f[k] ELSE g[k]]

MainAlphabet == {"a", "A", " ", "COMBINING_ACUTE"}
MainPasswords == SeqsUpTo(MainAlphabet, MaxStem)
MainContexts == {<<>>, <<<<"a">>>>, <<<<" ">>, <<" ", "A", " ">>, <<"a", "a">>>>}
\* a password that is two code points raw and one after NFC
Accented == <<"a", "COMBINING_ACUTE">>

MainFiles == {NoFile, Directory, NotUtf8, File(Accented \o <<"\n">>),
              File(<<" ", "\n", "a", " ", "\n", "A", "a">>)}
MainRemotes ==
    Failures \cup {Ok(<<>>), Ok(JoinLines(<<Record(Accented, <<"3">>)>>))}

\* every rule flag against every password, the optional checks all on or all off
InitRules ==
    \E t \in RuleTables, loud \in BOOLEAN :
       InitWith({Table(Merge(t,
                    IF loud
                    THEN [forbid_context_words |-> TRUE,
                          local_blocklist_path |-> BlocklistPath,
                          check_pwned_passwords |-> TRUE]
                    ELSE [forbid_context_words |-> FALSE]))},
                MainPasswords,
                {<<<<"a">>>>},
                {File(Accented \o <<"\n">>)},
                {Ok(JoinLines(<<Record(Accented, <<"3">>)>>))})

\* every state of the optional checks against every password, under the default
\* rules and under strict ones
InitCollaborators ==
    \E rules \in {EmptyTable, StrictRules},
       fc \in {EmptyTable, [forbid_context_words |-> FALSE]},
       b \in BlocklistSettings(MainFiles),
       p \in PwnedSettings(MainRemotes) :
       InitWith({Table(Merge(rules, Merge(fc, Merge(b.table, p.table))))},
                MainPasswords, MainContexts, {b.fs}, {p.net})

\* no --config, and configurations that do not load
InitConfigs ==
    InitWith({NoConfig, InvalidToml, NoPolicyTable, PolicyNotTable},
             MainPasswords, MainContexts, {NoFile}, {Ok(<<>>)})

Init == InitRules \/ InitCollaborators \/ InitConfigs

Spec == Init /\ [][Next]_vars

----------------------------------------------------------------------------
(* Properties of the whole pipeline, checked under Spec *)

Returned == pc = "done"

ReportCodes == Range(Codes(result.violations))

\* the password every check sees
Normalized == IF policy.normalize_unicode_nfc THEN NFC(password) ELSE password

\* C1: a returned analysis is compliant exactly when its violation sequence is
\* empty, whatever its suggestions are.
C1_CompliantIffNoViolations ==
    Returned => (result.is_compliant <=> result.violations = <<>>)

\* a compliant report that still carries suggestions
C1_Witness ==
    Returned /\ result.is_compliant /\ result.violations = <<>> /\ Len(result.suggestions) >= 2

\* C2: analyze_password never raises, whatever the blocklist path refers to and
\* however the breach service answers.
C2_AnalyzeIsTotal == pc # "raised"

CodeOrder ==
    <<{"length_too_short"}, {"length_too_long"}, {"spaces_not_allowed"},
      {"unicode_not_allowed"}, {"missing_upper"}, {"missing_lower"}, {"missing_digit"},
      {"missing_symbol"}, {"contains_context_word"},
      {"blocklist_missing", "blocklisted_password"},
      {"pwned_check_failed", "pwned_password"}>>

Rank(code) == CHOOSE i \in 1..Len(CodeOrder) : code \in CodeOrder[i]

\* what one check contributed to the report
Contribution(codes) == SelectSeq(result.violations, LAMBDA v : v.code \in codes)

\* C4: the codes of a report appear in the fixed order of the checks, and every
\* check's violations are in the report whatever the other checks reported.
C4_FixedOrderNoShortCircuit ==
    Returned =>
      /\ \A i, j \in 1..Len(result.violations) :
            i < j => Rank(result.violations[i].code) < Rank(result.violations[j].code)
      /\ Contribution({"length_too_short", "length_too_long"})
            = check_length(Normalized, policy)
      /\ Contribution({"spaces_not_allowed", "unicode_not_allowed"})
            = check_character_rules(Normalized, policy)
      /\ Contribution({"missing_upper", "missing_lower", "missing_digit", "missing_symbol"})
            = check_composition(Normalized, policy)
      /\ Contribution({"contains_context_word"})
            = context_step(Normalized, policy, context_words)
      /\ Contribution({"blocklist_missing", "blocklisted_password"})
            = check_blocklist(Normalized, policy, fs).out
      /\ Contribution({"pwned_check_failed", "pwned_password"})
            = check_pwned(Normalized, policy, net).out

\* one report with a violation from each of the six checks
C4_Witness ==
    /\ Returned
    /\ {"length_too_short", "length_too_long", "unicode_not_allowed", "missing_upper",
        "contains_context_word", "blocklisted_password", "pwned_password"} \subseteq ReportCodes

C10_LengthViolations ==
    Returned =>
      /\ "length_too_short" \in ReportCodes <=> Len(Normalized) < policy.min_length
      /\ "length_too_long" \in ReportCodes <=> Len(Normalized) > policy.max_length

\* inverted bounds: both length violations in one report
C10_Witness ==
    /\ Returned
    /\ policy.max_length < Len(Normalized) /\ Len(Normalized) < policy.min_length
    /\ SubSeq(Codes(result.violations), 1, 2) = <<"length_too_short", "length_too_long">>

----------------------------------------------------------------------------
(* The context-word check, checked under SpecContext *)

ContextWordPool ==
    {<<" ">>, <<"A">>, <<" ", "a", " ">>, <<"a", "b">>, <<"b">>, <<"B", "a">>}

InitContext ==
    \E fc \in BOOLEAN :
       InitWith({Table([forbid_context_words |-> fc])},
                SeqsUpTo({"a", "A", "b"}, MaxStem),
                SeqsUpTo(ContextWordPool, MaxWords),
                {NoFile}, {Ok(<<>>)})

SpecContext == InitContext /\ [][Next]_vars

\* the indices of the words whose trimmed form is non-empty and occurs,
\* ignoring case, in the normalized password
Matching ==
    {i \in 1..Len(context_words) :
        /\ Strip(context_words[i]) # <<>>
        /\ Contains(Casefold(Normalized), Casefold(Strip(context_words[i])))}

FirstMatching == CHOOSE i \in Matching : \A j \in Matching : i <= j

\* C6: at most one contains_context_word per report; none when the check is
\* off, the list is empty, every word trims to nothing, or no word occurs;
\* otherwise exactly one, naming the first matching word of the list.
C6_FirstContextWordOnly ==
    Returned =>
      LET found == Contribution({"contains_context_word"})
      IN /\ Len(found) <= 1
         /\ (~policy.forbid_context_words \/ Matching = {}) => found = <<>>
         /\ (policy.forbid_context_words /\ Matching # {}) =>
               /\ Len(found) = 1
               /\ found[1].word = Strip(context_words[FirstMatching])

\* several words match and the one reported is the first, trimmed
C6_Witness ==
    /\ Returned
    /\ Cardinality(Matching) >= 2
    /\ FirstMatching > 1
    /\ context_words[FirstMatching] # Strip(context_words[FirstMatching])
    /\ Len(Contribution({"contains_context_word"})) = 1

----------------------------------------------------------------------------
(* The suggestion generator, checked under SpecSuggest *)

SuggestPasswords ==
    {stem \o Fill(ch, k) :
        stem \in SeqsUpTo({"a", "A", "1"}, MaxStem),
        ch \in {"a", "1"},
        k \in 0..(TipLength + MaxFill)}

InitSuggest ==
    \E t \in {EmptyTable, [min_length |-> 8], [min_length |-> 16]} :
       InitWith({Table(t)}, SuggestPasswords, {<<>>}, {NoFile}, {Ok(<<>>)})

SpecSuggest == InitSuggest /\ [][Next]_vars

Suggested == Range(result.suggestions)

\* str.islower() / str.isupper(): at least one cased character, and all the
\* cased characters of that case
EntirelyLower(s) ==
    /\ \E i \in 1..Len(s) : IsLowerCh(s[i])
    /\ \A i \in 1..Len(s) : ~IsUpperCh(s[i])

EntirelyUpper(s) ==
    /\ \E i \in 1..Len(s) : IsUpperCh(s[i])
    /\ \A i \in 1..Len(s) : ~IsLowerCh(s[i])

EndsWithUniqueTip ==
    /\ result.suggestions # <<>>
    /\ result.suggestions[Len(result.suggestions)] = TipUnique

LengthTipRule ==
    TipLonger \in Suggested <=>
        Len(Normalized) < (IF policy.min_length > 14 THEN policy.min_length ELSE 14)

\* C9 as stated: the case tip is given exactly to passwords that are entirely
\* lowercase or entirely uppercase, so never to a password without letters.
C9_CaseTipOnlyForCasedPasswords ==
    Returned =>
      /\ EndsWithUniqueTip
      /\ LengthTipRule
      /\ TipMix \in Suggested <=> (EntirelyLower(Normalized) \/ EntirelyUpper(Normalized))

\* C9 amended: the case tip is given exactly when lowercasing leaves the
\* password unchanged or uppercasing leaves it unchanged, which includes every
\* password without letters; the other two tips are as stated.
C9_CaseTipWhenOneCaseAbsent ==
    Returned =>
      /\ EndsWithUniqueTip
      /\ LengthTipRule
      /\ TipMix \in Suggested <=>
            \/ \A i \in 1..Len(Normalized) : LowerCh(Normalized[i]) = Normalized[i]
            \/ \A i \in 1..Len(Normalized) : UpperCh(Normalized[i]) = Normalized[i]

\* a long password of digits only: no length tip, but the case tip
C9_Witness ==
    /\ Returned
    /\ Normalized # <<>>
    /\ \A i \in 1..Len(Normalized) : IsDigitCh(Normalized[i])
    /\ result.suggestions = <<TipMix, TipUnique>>

----------------------------------------------------------------------------
(* The blocklist check, checked under SpecBlocklist *)

BlocklistLinePool == {<<>>, <<" ">>, <<"a">>, <<"a", " ">>, <<" ", "a">>, <<"A">>}

\* files of up to MaxLines lines, the last one with or without its terminator
BlocklistFiles ==
    {File(JoinLines(ls)) : ls \in SeqsUpTo(BlocklistLinePool, MaxLines)}
    \cup {File(JoinLines(ls) \o <<"a">>) : ls \in SeqsUpTo(BlocklistLinePool, MaxLines - 1)}

InitBlocklist ==
    InitWith({Table([local_blocklist_path |-> BlocklistPath, min_length |-> 1])},
             SeqsUpTo({"a", "A", " "}, MaxStem),
             {<<>>},
             BlocklistFiles \cup {NoFile},
             {Ok(<<>>)})

SpecBlocklist == InitBlocklist /\ [][Next]_vars

\* a line with only its line terminator removed
WithoutTerminator(line) ==
    IF line # <<>> /\ line[Len(line)] = "\n" THEN SubSeq(line, 1, Len(line) - 1) ELSE line

\* the file's non-blank lines, each with only its terminator removed
ExactEntries(content) ==
    LET lines == FileLines(content)
    IN {WithoutTerminator(lines[i]) :
            i \in {j \in 1..Len(lines) : Strip(lines[j]) # <<>>}}

\* C3: with an existing blocklist file, blocklisted_password is reported
\* exactly when the normalized password equals one of the file's non-blank
\* lines with only its line terminator removed.
C3_ExactLineMatch ==
    (Returned /\ fs.kind = "file") =>
        ("blocklisted_password" \in ReportCodes <=> Normalized \in ExactEntries(fs.content))

----------------------------------------------------------------------------
(* The breach lookup, checked under SpecPwned *)

PwnedTargets == {<<"a">>, <<"b">>}

CountPool == {<<"3">>, <<"-", "3">>, <<"x">>, <<>>, <<" ", "1", "2", " ">>}

ResponseLinePool ==
    {Record(t, c) : t \in PwnedTargets, c \in CountPool}
    \cup {Lower(Record(<<"a">>, <<"7">>)),
          <<" ">> \o Record(<<"a">>, <<"5">>),
          HashSuffix(<<"a">>),
          <<"o", "k">>}

ResponseBodies ==
    {JoinLines(ls) : ls \in SeqsUpTo(ResponseLinePool, MaxLines)}

InitPwned ==
    InitWith({Table([check_pwned_passwords |-> TRUE, min_length |-> 1])},
             SeqsUpTo({"a", "b"}, MaxStem),
             {<<>>},
             {NoFile},
             {Ok(b) : b \in ResponseBodies} \cup Failures)

SpecPwned == InitPwned /\ [][Next]_vars

\* the lines of the body that have a colon and whose suffix field equals,
\* ignoring case, the suffix of the password's digest
MatchingLines ==
    LET lines == SplitLines(net.body)
    IN {i \in 1..Len(lines) :
          /\ ":" \in Range(lines[i])
          /\ Upper(Strip(SubSeq(lines[i], 1, ColonAt(lines[i]) - 1)))
                = SubSeq(Sha1HexUpper(Normalized), 6, 40)}

\* C8: the password is reported pwned exactly when some SUFFIX:COUNT line
\* matches the digest's suffix, and the breach count reported is never negative.
C8_PwnedIffMatchAndCountNonNegative ==
    (Returned /\ net.kind = "ok") =>
        /\ "pwned_password" \in ReportCodes <=> MatchingLines # {}
        /\ \A i \in 1..Len(result.violations) :
              result.violations[i].code = "pwned_password" => result.violations[i].num >= 0

----------------------------------------------------------------------------
(* The policy loader, checked under SpecConfig *)

ConfigTables ==
    {Restrict([min_length |-> mn, require_digit |-> TRUE,
               local_blocklist_path |-> StrValue(path),
               colour |-> "blue", max_len |-> 200], D) :
        mn \in {8, 16}, path \in {"", "/etc/blocklist.txt"},
        D \in SUBSET {"min_length", "require_digit", "local_blocklist_path",
                      "colour", "max_len"}}

InitConfig ==
    InitWith({NoConfig, InvalidToml, NoPolicyTable, PolicyNotTable}
                \cup {Table(t) : t \in ConfigTables},
             SeqsUpTo({"a", "1"}, MaxStem),
             {<<>>}, {NoFile}, {Ok(<<>>)})

SpecConfig == InitConfig /\ [][Next]_vars

Loading == pc # "start" /\ config.kind # "none"

\* C7 as stated: a configuration without a policy table, or whose policy is not
\* a table, fails to load.
C7_MissingOrMisshapenTableFails ==
    (Loading /\ config.kind \in {"no_policy", "not_table"}) => pc = "config_error"

\* C7 amended: a policy that is present but not a table fails to load; a
\* missing policy table loads the all-default policy; a policy table loads the
\* policy of its known keys, its unknown keys ignored.
C7_OnlyMisshapenTableFails ==
    Loading =>
      /\ config.kind = "not_table" => pc = "config_error"
      /\ config.kind = "no_policy" => (pc # "config_error" /\ policy = PolicyDefaults)
      /\ config.kind = "table" =>
            /\ pc # "config_error"
            /\ DOMAIN policy = PolicyKeys
            /\ \A k \in PolicyKeys :
                  policy[k] = IF k \notin DOMAIN config.table THEN PolicyDefaults[k]
                              ELSE IF k = "local_blocklist_path" /\ config.table[k].s # ""
                              THEN [tag |-> "Path", s |-> config.table[k].s]
                              ELSE config.table[k]

\* a table with unknown keys that loaded, next to known keys that took effect
C7_Witness ==
    /\ pc = "loaded"
    /\ config.kind = "table"
    /\ {"colour", "max_len", "min_length"} \subseteq DOMAIN config.table
    /\ policy.min_length = 16
    /\ policy.max_length = 128

====
